---------------------------- MODULE Spec2Model ----------------------------
(***************************************************************************)
(* Google for Jobs visibility tracker (src/app.py).                        *)
(*                                                                         *)
(* The script is executed top to bottom (as a Streamlit page, or headless  *)
(* with the argument "github"): it creates the share_of_voice table, runs  *)
(* compute_sov and save_to_db when asked to, and reads the history back    *)
(* with get_historical_data.  Python binds a name to its LAST definition,  *)
(* so get_google_jobs_results, compute_sov and save_to_db are the ones     *)
(* defined at lines 178, 201 and 248; the logging variants at lines 28, 64 *)
(* and 98 are dead code.                                                   *)
(*                                                                         *)
(* Numbers.  Python floats are modelled by exact rationals held in         *)
(* integers: a raw weight is counted in units of 1/WeightUnit, a           *)
(* percentage with 4 decimals in units of 0.0001, a stored percentage and  *)
(* an average rank in units of 0.01.  round() is round-half-to-even.       *)
(***************************************************************************)
EXTENDS Integers, Sequences, FiniteSets, TLC

\* ------------------------------------------------------------- bounds ----
\* Size of one run of the full script: rows of jobs.csv plus postings plus
\* apply options returned by the search service.
MaxItems == 4
\* The same size for the runs of compute_sov taken alone.
MaxSovItems == 8
\* Rows of jobs.csv when the service returns at most one posting with one
\* apply option per query.
MaxSingleQueries == 6
\* Calendar dates 1..MaxDate.
MaxDate == 2
\* Rows already stored in share_of_voice when the history is read.
MaxRows == 3

\* ------------------------------------------------------- arithmetic ----
Min(a, b) == IF a < b THEN a ELSE b
Max(a, b) == IF a > b THEN a ELSE b
Abs(a) == IF a < 0 THEN -a ELSE a

RECURSIVE GCD(_, _)
GCD(a, b) == IF b = 0 THEN a ELSE GCD(b, a % b)

RECURSIVE LCMUpTo(_)
LCMUpTo(n) == IF n <= 1 THEN 1 ELSE LET l == LCMUpTo(n - 1) IN (l * n) \div GCD(l, n)

\* 1/job_rank and 1/link_order are both multiples of 1/RankUnit for every
\* rank the bounds allow; a weight V * H is a multiple of 1/WeightUnit.
RankUnit == LCMUpTo(Max(MaxItems, MaxSovItems) + 1)
WeightUnit == RankUnit * RankUnit

\* n * 10^k / d as quotient and remainder, by long division (n < d or not).
RECURSIVE ScaledDiv(_, _, _)
ScaledDiv(n, d, k) ==
    IF k = 0 THEN [q |-> n \div d, r |-> n % d]
    ELSE LET p == ScaledDiv(n, d, k - 1)
             t == p.r * 10
         IN  [q |-> p.q * 10 + (t \div d), r |-> t % d]

\* Python's round(): to the nearest, a tie to the even neighbour.
\* RoundRatio(n, d, k) is round(n / d, k) in units of 10^-k, for d > 0.
RoundRatio(n, d, k) ==
    LET p == ScaledDiv(n, d, k)
    IN  IF 2 * p.r > d \/ (2 * p.r = d /\ p.q % 2 = 1) THEN p.q + 1 ELSE p.q

\* round(x, 2) of a float x that holds a 4-decimal value k / 10^4; the result
\* is in units of 0.01.  Python rounds the exact binary value of x: off a tie
\* that is the nearest, and on a decimal tie (k ends in 50) it depends on
\* whether the double nearest to k / 10^4 lies below or above it.  With
\* k / 10^4 = K / 200 and 2^e <= K / 200 < 2^(e+1), the double is
\* round(K * 2^(49-e) / 25) / 2^(52-e): the residue of K * 2^(49-e) modulo 25
\* tells on which side it lies, and when it is 0 the double is exact and the
\* tie goes to the even neighbour.
RECURSIVE Pow2Mod25(_)
Pow2Mod25(n) == IF n = 0 THEN 1 ELSE (2 * Pow2Mod25(n - 1)) % 25

AtLeastPow2(K, e) == IF e >= 0 THEN K >= 200 * (2 ^ e) ELSE K * (2 ^ (0 - e)) >= 200
BinaryExponent(K) == CHOOSE e \in (0 - 8)..6 : AtLeastPow2(K, e) /\ ~AtLeastPow2(K, e + 1)

RoundFloat2(k) ==
    LET q == k \div 100
        r == k % 100
        K == k \div 50
        side == ((K % 25) * Pow2Mod25(49 - BinaryExponent(K))) % 25
    IN  IF r < 50 THEN q
        ELSE IF r > 50 THEN q + 1
        ELSE IF side = 0 THEN (IF q % 2 = 0 THEN q ELSE q + 1)
        ELSE IF side <= 12 THEN q ELSE q + 1

RECURSIVE SumSeq(_)
SumSeq(s) == IF s = <<>> THEN 0 ELSE Head(s) + SumSeq(Tail(s))

\* A dict as a function; Put is d[k] = v.
Put(d, k, v) == [x \in DOMAIN d \cup {k} |-> IF x = k THEN v ELSE d[x]]
EmptyDict == [x \in {} |-> 0]

\* ------------------------------------------------------------ URLs ----
\* A URL is its host, a sequence of labels; the scheme and the path play no
\* part in tldextract's result.  "" is the URL with no host.
UrlA == [host |-> <<"www", "A", "com">>]        \* https://www.A.com/apply
UrlA2 == [host |-> <<"a", "com">>]              \* http://a.com
UrlB == [host |-> <<"jobs", "b", "com">>]       \* https://jobs.b.com/x
UrlC == [host |-> <<"c", "com">>]
UrlD == [host |-> <<"d", "com">>]
UrlE == [host |-> <<"e", "com">>]
UrlF == [host |-> <<"f", "com">>]
UrlEmpty == [host |-> <<>>]                     \* the empty string

PublicSuffixes == {"com"}

\* tldextract.extract(url): the public suffix, the label before it, and the
\* rest; without a known suffix the last label is the domain.
TldExtract(url) ==
    LET h == url.host
        n == Len(h)
    IN  IF n = 0 THEN [domain |-> "", suffix |-> ""]
        ELSE IF h[n] \in PublicSuffixes
             THEN [domain |-> IF n >= 2 THEN h[n - 1] ELSE "", suffix |-> h[n]]
             ELSE [domain |-> h[n], suffix |-> ""]

\* str.lower() on one label.
Lower(s) ==
    CASE s = "A" -> "a"
      [] s = "B" -> "b"
      [] s = "WWW" -> "www"
      [] OTHER -> s

\* str.replace("www.", "") on a string held as its labels and dots.
RECURSIVE ReplaceWww(_)
ReplaceWww(t) ==
    IF Len(t) = 0 THEN t
    ELSE IF Len(t) >= 2 /\ t[1] = "www" /\ t[2] = "."
         THEN ReplaceWww(SubSeq(t, 3, Len(t)))
         ELSE <<t[1]>> \o ReplaceWww(Tail(t))

RECURSIVE Join(_)
Join(t) == IF t = <<>> THEN "" ELSE Head(t) \o Join(Tail(t))

extract_domain(url) ==
    LET extracted == TldExtract(url)
        domain == IF extracted.suffix # ""
                  THEN <<extracted.domain, ".", extracted.suffix>>
                  ELSE IF extracted.domain = "" THEN <<>> ELSE <<extracted.domain>>
    IN  Join(ReplaceWww([i \in DOMAIN domain |-> Lower(domain[i])]))

\* ------------------------------------------------- the search service ----
\* An apply option with a link, and one without the "link" key.
LinkOption(url) == [link |-> url]
NoLinkOption == [title |-> "Apply"]
\* A posting with apply options, and one without the "apply_options" key.
Posting(opts) == [apply_options |-> opts]
BarePosting == [title |-> "Job"]

\* The URLs in the order in which a single-posting service first uses them.
UrlOrder == <<UrlA2, UrlB, UrlC, UrlD, UrlE, UrlF>>

\* Postings that cost exactly c items (1 for the posting, 1 per option).
PostingsOfCost(opts, c) ==
    IF c = 1 THEN {BarePosting, Posting(<<>>)}
    ELSE {Posting(o) : o \in [1..(c - 1) -> opts]}

\* Every "jobs_results" list of at most q items.
RECURSIVE Responses(_, _)
Responses(opts, q) ==
    {<<>>} \cup
    UNION {{<<j>> \o rest : j \in PostingsOfCost(opts, c), rest \in Responses(opts, q - c)}
           : c \in 1..q}

RECURSIVE Cost(_)
Cost(jobs) ==
    IF jobs = <<>> THEN 0
    ELSE 1 + (IF "apply_options" \in DOMAIN Head(jobs) THEN Len(Head(jobs).apply_options) ELSE 0)
           + Cost(Tail(jobs))

\* What a single-posting service may answer once `seen` domains are known:
\* nothing, or one posting with one link to a known domain or the next new one.
SingleResponses(seen) ==
    {<<>>} \cup
    {<<Posting(<<LinkOption(UrlOrder[i])>>)>> : i \in 1..Min(Len(UrlOrder), seen + 1)}

\* ------------------------------------------------------ compute_sov ----
NoLocals ==
    [domain_sov |-> EmptyDict, domain_appearances |-> EmptyDict,
     domain_v_rank |-> EmptyDict, domain_h_rank |-> EmptyDict,
     total_sov |-> 0, keys |-> <<>>]

\* defaultdict lookup
Get(d, k, default) == IF k \in DOMAIN d THEN d[k] ELSE default

\* A weight that forgets the horizontal factor: weight = V.
WeightVerticalOnly(job_rank, link_order) == (RankUnit \div job_rank) * RankUnit

\* Lines 224-226: V = 1 / job_rank, H = 1 / link_order, weight = V * H, in
\* units of 1/WeightUnit.
Weight(job_rank, link_order) ==
    LET V == RankUnit \div job_rank
        H == RankUnit \div link_order
    IN  V * H

\* Lines 223-231: one apply option that has a link.
AddLink(acc, job_rank, link_order, option) ==
    LET domain == extract_domain(option.link)
        weight == Weight(job_rank, link_order)
    IN  [domain_sov |-> Put(acc.domain_sov, domain, Get(acc.domain_sov, domain, 0) + weight),
         domain_appearances |->
             Put(acc.domain_appearances, domain, Get(acc.domain_appearances, domain, 0) + 1),
         domain_v_rank |->
             Put(acc.domain_v_rank, domain, Append(Get(acc.domain_v_rank, domain, <<>>), job_rank)),
         domain_h_rank |->
             Put(acc.domain_h_rank, domain, Append(Get(acc.domain_h_rank, domain, <<>>), link_order)),
         total_sov |-> acc.total_sov + weight,
         keys |-> IF domain \in DOMAIN acc.domain_sov THEN acc.keys ELSE Append(acc.keys, domain)]

\* A scan that reads the link with option.get("link", ""): an option without
\* a link is counted under the empty domain.
RECURSIVE ScanOptionsDefaultLink(_, _, _, _)
ScanOptionsDefaultLink(acc, job_rank, apply_options, link_order) ==
    IF link_order > Len(apply_options) THEN acc
    ELSE LET option == apply_options[link_order]
             next == IF "link" \in DOMAIN option
                     THEN AddLink(acc, job_rank, link_order, option)
                     ELSE AddLink(acc, job_rank, link_order, LinkOption(UrlEmpty))
         IN  ScanOptionsDefaultLink(next, job_rank, apply_options, link_order + 1)

\* Lines 221-231: the options of one posting, from link_order on.
RECURSIVE ScanOptions(_, _, _, _)
ScanOptions(acc, job_rank, apply_options, link_order) ==
    IF link_order > Len(apply_options) THEN acc
    ELSE LET option == apply_options[link_order]
             next == IF "link" \in DOMAIN option
                     THEN AddLink(acc, job_rank, link_order, option)
                     ELSE acc
         IN  ScanOptions(next, job_rank, apply_options, link_order + 1)

\* Lines 216-231: the postings of one query, from job_rank on.
RECURSIVE ScanJobs(_, _, _)
ScanJobs(acc, jobs, job_rank) ==
    IF job_rank > Len(jobs) THEN acc
    ELSE LET job == jobs[job_rank]
             apply_options == IF "apply_options" \in DOMAIN job THEN job.apply_options ELSE <<>>
         IN  ScanJobs(ScanOptions(acc, job_rank, apply_options, 1), jobs, job_rank + 1)

\* A normalisation that forgets the factor 100: round(sov / total_sov, 4).
PercentageNoScale(sov, total) == RoundRatio(sov, total, 4)

\* Line 234: round((sov / total_sov) * 100, 4), in units of 0.0001.
Percentage(sov, total) == RoundRatio(sov, total, 6)

\* Lines 233-234.
NormalisedSov(acc) ==
    IF acc.total_sov > 0
    THEN [d \in DOMAIN acc.domain_sov |-> Percentage(acc.domain_sov[d], acc.total_sov)]
    ELSE acc.domain_sov

\* Lines 236-237: round(sum(ranks) / len(ranks), 2), in units of 0.01.
AvgRank(ranks) == RoundRatio(SumSeq(ranks), Len(ranks), 2)

\* Line 239: what compute_sov returns.
Returned(acc) ==
    [sov_data |-> NormalisedSov(acc),
     appearances |-> acc.domain_appearances,
     avg_v_rank |-> [d \in DOMAIN acc.domain_v_rank |-> AvgRank(acc.domain_v_rank[d])],
     avg_h_rank |-> [d \in DOMAIN acc.domain_h_rank |-> AvgRank(acc.domain_h_rank[d])],
     keys |-> acc.keys]

NoResult ==
    [sov_data |-> EmptyDict, appearances |-> EmptyDict, avg_v_rank |-> EmptyDict,
     avg_h_rank |-> EmptyDict, keys |-> <<>>]

\* ------------------------------------------------------------ state ----
VARIABLES
    mode,            \* "view": page load; "button": Fetch & Store pressed; "github": sys.argv[1]
    DB_URL,          \* whether the environment variable is set
    SERP_API_KEY,    \* whether the environment variable is set
    jobs_csv,        \* jobs.csv: whether it exists, and its number of rows
    service,         \* what the search service may still return
    pc,              \* where the script is
    jobs_data,       \* compute_sov: the list load_jobs returned
    qi,              \* compute_sov: 1-based index of the next job_query
    locals,          \* compute_sov: its four dicts and total_sov
    result,          \* sov_data, appearances, avg_v_rank, avg_h_rank (lines 337, 441)
    table_exists,    \* whether share_of_voice exists in the database
    share_of_voice,  \* the committed rows of the table
    pending,         \* rows inserted by the open transaction of save_to_db
    si,              \* save_to_db: 1-based index of the next domain
    today,           \* save_to_db: datetime.date.today()
    date_range,      \* start_date and end_date of the sidebar (lines 332-333)
    tables,          \* df_sov, df_metrics, df_appearances (line 343)
    shown,           \* what the page or the console has displayed
    error,           \* the exception that ended the script, "" if none
    exit_status,     \* -1 while running, then the status of the process
    served           \* history: what each call of get_google_jobs_results did

vars == <<mode, DB_URL, SERP_API_KEY, jobs_csv, service, pc, jobs_data, qi, locals,
          result, table_exists, share_of_voice, pending, si, today, date_range, tables,
          shown, error, exit_status, served>>

env == <<mode, DB_URL, SERP_API_KEY, jobs_csv>>
sovVars == <<service, jobs_data, qi, locals, served>>
dbVars == <<table_exists, share_of_voice, pending, si, today>>
histVars == <<date_range, tables>>

Dates == 1..MaxDate
\* pd.DataFrame()
EmptyFrame == [index |-> <<>>, columns |-> <<>>, cell |-> <<>>]
NoTables == [df_sov |-> EmptyFrame, df_metrics |-> EmptyFrame, df_appearances |-> EmptyFrame]

\* The options the service draws from in a run of the full script and in a
\* run of compute_sov alone.
ScriptOptions == {NoLinkOption, LinkOption(UrlEmpty), LinkOption(UrlA), LinkOption(UrlB)}
SovOptions == {LinkOption(UrlA), LinkOption(UrlA2), LinkOption(UrlB)}

NoCsv == [exists |-> FALSE, rows |-> 0]
Csv(n) == [exists |-> TRUE, rows |-> n]

\* The state common to every start.
Fresh ==
    /\ jobs_data = <<>> /\ qi = 1 /\ locals = NoLocals /\ result = NoResult
    /\ pending = <<>> /\ si = 1 /\ today = 1
    /\ date_range = <<1, 1>> /\ tables = NoTables /\ shown = {} /\ error = "" /\ exit_status = -1
    /\ served = <<>>

\* The script is about to run (line 130).
Init ==
    /\ mode \in {"view", "button", "github"}
    /\ DB_URL \in BOOLEAN
    /\ SERP_API_KEY \in BOOLEAN
    /\ jobs_csv \in {NoCsv} \cup {Csv(n) : n \in 0..MaxItems}
    /\ service = [options |-> ScriptOptions, quota |-> MaxItems - jobs_csv.rows,
                  single |-> FALSE]
    /\ pc = "start"
    /\ table_exists \in BOOLEAN
    /\ share_of_voice = <<>>
    /\ Fresh

\* The button handler is about to call compute_sov (line 337).
InitSov ==
    /\ mode = "button"
    /\ DB_URL = TRUE
    /\ SERP_API_KEY \in BOOLEAN
    /\ \/ /\ jobs_csv \in {Csv(n) : n \in 0..MaxSovItems}
          /\ service = [options |-> SovOptions, quota |-> MaxSovItems - jobs_csv.rows,
                        single |-> FALSE]
       \/ /\ jobs_csv \in {Csv(n) : n \in 0..MaxSingleQueries}
          /\ service = [options |-> {}, quota |-> 0, single |-> TRUE]
    /\ pc = "button"
    /\ table_exists = TRUE
    /\ share_of_voice = <<>>
    /\ Fresh

\* ---------------------------------------------------------- actions ----
\* Lines 167-175.
load_jobs == IF ~jobs_csv.exists THEN <<>> ELSE [i \in 1..jobs_csv.rows |-> i]

\* The exception ends the script: nothing after the raising line runs.
Raise(e) ==
    /\ pc' = "crashed"
    /\ error' = e
    /\ exit_status' = 1

\* Lines 337 and 441 call compute_sov; lines 202-208 run.
compute_sov_begin ==
    /\ <<mode, pc>> \in {<<"button", "button">>, <<"github", "cli">>}
    /\ jobs_data' = load_jobs
    /\ shown' = IF ~jobs_csv.exists THEN shown \cup {"jobs.csv not found"} ELSE shown
    /\ locals' = NoLocals
    /\ qi' = 1
    /\ pc' = "sov"
    /\ UNCHANGED <<env, service, result, dbVars, histVars, error, exit_status, served>>

\* What get_google_jobs_results may return for the next query (line 198).
Answers ==
    IF service.single THEN SingleResponses(Len(locals.keys))
    ELSE Responses(service.options, service.quota)

\* Lines 210-231: one job_query whose fetch succeeds.
ProcessQuery ==
    /\ pc = "sov"
    /\ qi <= Len(jobs_data)
    /\ SERP_API_KEY
    /\ \E jobs \in Answers :
          /\ locals' = ScanJobs(locals, jobs, 1)
          /\ service' = [service EXCEPT !.quota = IF service.single THEN 0 ELSE @ - Cost(jobs)]
          /\ served' = Append(served, [ok |-> TRUE, jobs |-> jobs])
    /\ qi' = qi + 1
    /\ UNCHANGED <<env, pc, jobs_data, result, dbVars, histVars, shown, error, exit_status>>

\* Line 214 raises: ValueError without the key (line 182), RuntimeError on
\* a status other than 200 (line 196).  compute_sov has no handler.
FetchFails ==
    /\ pc = "sov"
    /\ qi <= Len(jobs_data)
    /\ Raise(IF SERP_API_KEY THEN "RuntimeError: SerpAPI status" ELSE "ValueError: SERP_API_KEY")
    /\ served' = Append(served, [ok |-> FALSE, jobs |-> <<>>])
    /\ locals' = NoLocals
    /\ UNCHANGED <<env, service, jobs_data, qi, result, dbVars, histVars, shown>>

\* Lines 233-239, and the assignment of the returned tuple.
compute_sov_return ==
    /\ pc = "sov"
    /\ qi > Len(jobs_data)
    /\ result' = Returned(locals)
    /\ locals' = NoLocals
    /\ pc' = "save"
    /\ UNCHANGED <<env, service, jobs_data, qi, dbVars, histVars, shown, error, exit_status,
                   served>>

NextSov == compute_sov_begin \/ ProcessQuery \/ FetchFails \/ compute_sov_return

SpecSov == InitSov /\ [][NextSov]_vars

\* ------------------------------------------------------- save_to_db ----
\* Line 258: the row inserted for one domain.
Row(res, domain, date) ==
    [domain |-> domain,
     sov |-> RoundFloat2(res.sov_data[domain]),
     appearances |-> res.appearances[domain],
     avg_v_rank |-> res.avg_v_rank[domain],
     avg_h_rank |-> res.avg_h_rank[domain],
     date |-> date]

\* Lines 249-252: the connection opens a transaction; today is read once.
save_begin ==
    /\ pc = "save"
    /\ \E d \in Dates : today' = d
    /\ pending' = <<>>
    /\ si' = 1
    /\ pc' = "insert"
    /\ UNCHANGED <<env, sovVars, result, table_exists, share_of_voice, histVars, shown, error,
                   exit_status>>

\* An INSERT on a connection in autocommit mode: the row is visible at once.
save_insert_autocommit ==
    /\ pc = "insert"
    /\ si <= Len(result.keys)
    /\ table_exists
    /\ share_of_voice' = Append(share_of_voice, Row(result, result.keys[si], today))
    /\ si' = si + 1
    /\ UNCHANGED <<env, sovVars, result, pc, table_exists, pending, today, histVars,
                   shown, error, exit_status>>

\* Lines 254-258: one INSERT, in the order of the keys of sov_data.
save_insert ==
    /\ pc = "insert"
    /\ si <= Len(result.keys)
    /\ table_exists
    /\ pending' = Append(pending, Row(result, result.keys[si], today))
    /\ si' = si + 1
    /\ UNCHANGED <<env, sovVars, result, pc, table_exists, share_of_voice, today, histVars,
                   shown, error, exit_status>>

\* cursor.execute or conn.commit raises (no table, connection lost): the
\* exception leaves save_to_db, the connection is dropped uncommitted and
\* the database rolls its transaction back.
save_fails ==
    /\ pc = "insert"
    /\ si <= Len(result.keys) + 1
    /\ pending' = <<>>
    /\ Raise("psycopg2.Error")
    /\ UNCHANGED <<env, sovVars, result, si, table_exists, share_of_voice, today, histVars,
                   shown>>

\* Line 260: the single commit makes the rows of the run visible.
save_commit ==
    /\ pc = "insert"
    /\ si > Len(result.keys)
    /\ share_of_voice' = share_of_voice \o pending
    /\ pending' = <<>>
    /\ pc' = "stored"
    /\ UNCHANGED <<env, sovVars, result, si, table_exists, today, histVars, shown, error,
                   exit_status>>

\* Lines 339 and 443: the success message; the headless run then ends.
ReportSuccess ==
    /\ pc = "stored"
    /\ shown' = shown \cup {"Data stored successfully"}
    /\ pc' = IF mode = "github" THEN "done" ELSE "hist"
    /\ exit_status' = IF mode = "github" THEN 0 ELSE exit_status
    /\ UNCHANGED <<env, sovVars, result, dbVars, histVars, error>>

\* ------------------------------------------------ get_historical_data ----
\* The domain names of the model in str order.
DomainOrder == <<"", "a.com", "b.com", "c.com", "d.com", "e.com", "f.com">>
DomainIndex(d) == CHOOSE i \in 1..Len(DomainOrder) : DomainOrder[i] = d

\* The ascending sequence of a set of integers, and of a set of domains.
RECURSIVE AscendingInts(_)
AscendingInts(S) ==
    IF S = {} THEN <<>>
    ELSE LET m == CHOOSE x \in S : \A y \in S : x <= y
         IN  <<m>> \o AscendingInts(S \ {m})

AscendingDomains(S) ==
    LET idx == AscendingInts({DomainIndex(d) : d \in S})
    IN  [i \in DOMAIN idx |-> DomainOrder[idx[i]]]

Range(s) == {s[i] : i \in DOMAIN s}
Perms(n) == {p \in [1..n -> 1..n] : \A i, j \in 1..n : p[i] = p[j] => i = j}
Orders(s) == {[i \in 1..Len(s) |-> s[p[i]]] : p \in Perms(Len(s))}

\* A mean as the fraction sum / count in lowest terms; fillna(0) is 0 / 1.
Ratio(n, d) == LET g == GCD(n, d) IN [n |-> n \div g, d |-> d \div g]
Zero == [n |-> 0, d |-> 1]
GreaterEq(a, b) == a.n * b.d >= b.n * a.d

\* Lines 284-290: the rows of the range.
InRange(rows, start_date, end_date) ==
    SelectSeq(rows, LAMBDA r : start_date <= r.date /\ r.date <= end_date)

\* Lines 301-306: groupby(["domain", "date"]).agg, a fold in the order in
\* which the rows were fetched.
RECURSIVE GroupSums(_, _)
GroupSums(rows, acc) ==
    IF rows = <<>> THEN acc
    ELSE LET r == Head(rows)
             key == <<r.domain, r.date>>
             old == Get(acc, key, [sov |-> 0, appearances |-> 0, avg_v_rank |-> 0,
                                   avg_h_rank |-> 0, count |-> 0])
         IN  GroupSums(Tail(rows),
                       Put(acc, key,
                           [sov |-> old.sov + r.sov,
                            appearances |-> old.appearances + r.appearances,
                            avg_v_rank |-> old.avg_v_rank + r.avg_v_rank,
                            avg_h_rank |-> old.avg_h_rank + r.avg_h_rank,
                            count |-> old.count + 1]))

\* An aggregation of sov by "sum" instead of "mean".
AggSovSum(g) == Ratio(g.sov, 1)

\* Line 303: "sov": "mean".
AggSov(g) == Ratio(g.sov, g.count)

df_agg(rows) ==
    LET sums == GroupSums(rows, EmptyDict)
    IN  [key \in DOMAIN sums |->
            [sov |-> AggSov(sums[key]),
             appearances |-> sums[key].appearances,
             avg_v_rank |-> Ratio(sums[key].avg_v_rank, sums[key].count),
             avg_h_rank |-> Ratio(sums[key].avg_h_rank, sums[key].count)]]

\* DataFrame.pivot(index="domain", columns="date", values=...).fillna(0):
\* the index and the columns come out sorted.
\* With a list of values a cell holds one number per value.
PivotList(agg, values, zero) ==
    LET domains == {key[1] : key \in DOMAIN agg}
        dates == {key[2] : key \in DOMAIN agg}
    IN  [index |-> AscendingDomains(domains),
         columns |-> AscendingInts(dates),
         cell |-> [key \in domains \X dates |->
                      IF key \in DOMAIN agg THEN [f \in values |-> agg[key][f]] ELSE zero]]

Pivot(agg, values, zero) ==
    LET p == PivotList(agg, {values}, [f \in {values} |-> zero])
    IN  [p EXCEPT !.cell = [key \in DOMAIN p.cell |-> p.cell[key][values]]]

Empty(df) == df.index = <<>> \/ df.columns = <<>>

\* Lines 318-320: sort_values(by=most_recent_date, ascending=False).  The
\* default kind is quicksort, which is not stable: rows with equal values
\* may come out in any order.
SortedBy(df, column) ==
    {o \in Orders(df.index) :
        \A i, j \in 1..Len(o) :
            i < j => GreaterEq(df.cell[<<o[i], column>>], df.cell[<<o[j], column>>])}

SortValues(df) ==
    IF Empty(df) THEN {df}
    ELSE LET most_recent_date == df.columns[Len(df.columns)]
         IN  {[df EXCEPT !.index = o] : o \in SortedBy(df, most_recent_date)}

\* Lines 292-325 on the fetched rows: every (df_sov, df_metrics, df_appearances).
HistoricalTables(rows) ==
    LET agg == df_agg(rows)
    IN  {[df_sov |-> s,
          df_metrics |-> PivotList(agg, {"appearances", "avg_v_rank", "avg_h_rank"},
                                   [appearances |-> 0, avg_v_rank |-> Zero, avg_h_rank |-> Zero]),
          df_appearances |-> Pivot(agg, "appearances", 0)] :
            s \in SortValues(Pivot(agg, "sov", Zero))}

\* Line 343: the call and the unpacking of what it returns.  Without the
\* table the function returns two DataFrames (line 282) and the assignment
\* to three names raises ValueError.
get_historical_data ==
    /\ pc = "hist"
    /\ IF ~table_exists
       THEN /\ Raise("ValueError: not enough values to unpack")
            /\ shown' = shown \cup {"No data available yet"}
            /\ UNCHANGED histVars
       ELSE /\ \E start_date \in Dates, end_date \in Dates :
                /\ date_range' = <<start_date, end_date>>
                /\ \E rows \in Orders(InRange(share_of_voice, start_date, end_date)) :
                       tables' \in HistoricalTables(rows)
            /\ pc' = "render"
            /\ UNCHANGED <<shown, error, exit_status>>
    /\ UNCHANGED <<env, sovVars, result, dbVars>>

\* Lines 345-435.
Render ==
    /\ pc = "render"
    /\ shown' = shown \cup {IF ~Empty(tables.df_sov) THEN "charts" ELSE "No historical data"}
    /\ pc' = "cli"
    /\ UNCHANGED <<env, sovVars, result, dbVars, histVars, error, exit_status>>

\* --------------------------------------------------- the script itself ----
\* Lines 130-164: DB_URL is required; initialize_database creates the table.
Startup ==
    /\ pc = "start"
    /\ IF ~DB_URL
       THEN /\ Raise("ValueError: DB_URL")
            /\ UNCHANGED table_exists
       ELSE /\ table_exists' = TRUE
            /\ pc' = "button"
            /\ UNCHANGED <<error, exit_status>>
    /\ UNCHANGED <<env, sovVars, result, share_of_voice, pending, si, today, histVars, shown>>

\* Line 336: the button was not pressed.
NoButton ==
    /\ pc = "button"
    /\ mode # "button"
    /\ pc' = "hist"
    /\ UNCHANGED <<env, sovVars, result, dbVars, histVars, shown, error, exit_status>>

\* Line 439: not the headless mode; the script ends.
EndOfScript ==
    /\ pc = "cli"
    /\ mode # "github"
    /\ pc' = "done"
    /\ exit_status' = 0
    /\ UNCHANGED <<env, sovVars, result, dbVars, histVars, shown, error>>

\* Another database session drops the table (the case line 278 tests for).
\* DROP TABLE waits for an open transaction on the table.
DropTable ==
    /\ pc \in {"button", "sov", "save", "hist"}
    /\ table_exists
    /\ pending = <<>>
    /\ table_exists' = FALSE
    /\ share_of_voice' = <<>>
    /\ UNCHANGED <<env, sovVars, result, pc, pending, si, today, histVars, shown, error,
                   exit_status>>

Next ==
    \/ Startup
    \/ NoButton
    \/ compute_sov_begin
    \/ ProcessQuery
    \/ FetchFails
    \/ compute_sov_return
    \/ save_begin
    \/ save_insert
    \/ save_fails
    \/ save_commit
    \/ ReportSuccess
    \/ get_historical_data
    \/ Render
    \/ EndOfScript
    \/ DropTable

Spec == Init /\ [][Next]_vars

\* The history is read (line 343) from a table that earlier runs filled.
StoredProfiles ==
    {[sov |-> 1000, appearances |-> 1, avg_v_rank |-> 100, avg_h_rank |-> 200],
     [sov |-> 2000, appearances |-> 3, avg_v_rank |-> 250, avg_h_rank |-> 100]}
StoredRows ==
    {[domain |-> d, sov |-> p.sov, appearances |-> p.appearances,
      avg_v_rank |-> p.avg_v_rank, avg_h_rank |-> p.avg_h_rank, date |-> t] :
        d \in {"a.com", "b.com"}, p \in StoredProfiles, t \in Dates}

InitHist ==
    /\ mode = "view"
    /\ DB_URL = TRUE
    /\ SERP_API_KEY = TRUE
    /\ jobs_csv = NoCsv
    /\ service = [options |-> {}, quota |-> 0, single |-> FALSE]
    /\ pc = "hist"
    /\ table_exists = TRUE
    \* rows are in the order of the runs that stored them (line 252)
    /\ \E n \in 0..MaxRows :
          /\ share_of_voice \in [1..n -> StoredRows]
          /\ \A i \in 1..(n - 1) : share_of_voice[i].date <= share_of_voice[i + 1].date
    /\ Fresh

NextHist == get_historical_data \/ Render \/ EndOfScript

SpecHist == InitHist /\ [][NextHist]_vars

\* ============================================================ claims ====
\* What the run was served, read off the history: the apply options that
\* carry a link, as (query, rank of the posting, rank of the option).
OptionsAt(q, r) ==
    LET job == served[q].jobs[r]
    IN  IF "apply_options" \in DOMAIN job THEN job.apply_options ELSE <<>>

LinkPositions ==
    UNION {UNION {{<<q, r, h>> : h \in {k \in 1..Len(OptionsAt(q, r)) :
                                          "link" \in DOMAIN OptionsAt(q, r)[k]}}
                  : r \in 1..Len(served[q].jobs)}
           : q \in 1..Len(served)}

LinkDomain(p) == extract_domain(OptionsAt(p[1], p[2])[p[3]].link)
LinkedDomains == {LinkDomain(p) : p \in LinkPositions}

\* (1/r) * (1/h) in units of 1/WeightUnit.
PositionWeight(p) == WeightUnit \div (p[2] * p[3])

RECURSIVE SumWeights(_)
SumWeights(S) ==
    IF S = {} THEN 0
    ELSE LET p == CHOOSE x \in S : TRUE IN PositionWeight(p) + SumWeights(S \ {p})

RawWeight(d) == SumWeights({p \in LinkPositions : LinkDomain(p) = d})
TotalWeight == SumWeights(LinkPositions)

AllFetched == Len(served) = Len(jobs_data) /\ \A i \in DOMAIN served : served[i].ok

\* The sum of the stored percentages of the snapshot, in units of 0.01.
RECURSIVE SumStored(_, _)
SumStored(sov, D) ==
    IF D = {} THEN 0
    ELSE LET d == CHOOSE x \in D : TRUE IN RoundFloat2(sov[d]) + SumStored(sov, D \ {d})

StoredSum == SumStored(result.sov_data, DOMAIN result.sov_data)
Domains == Cardinality(DOMAIN result.sov_data)

\* C1 (as amended): when compute_sov has returned with a total weight > 0, the
\* percentages rounded to 4 and then to 2 decimals sum to within 0.0051 * N
\* of 100.00, N being the number of domains, and so to within 0.01 for N <= 3.
C1_SumWithinRoundingOfN ==
    (pc = "save" /\ TotalWeight > 0) =>
        /\ 100 * Abs(StoredSum - 10000) <= 51 * Domains
        /\ Domains <= 3 => Abs(StoredSum - 10000) <= 1

\* C1 (as stated): the rounded percentages sum to within 0.01 of 100.00 for
\* any number of domains.
C1_SumWithinOneHundredth ==
    (pc = "save" /\ TotalWeight > 0) => Abs(StoredSum - 10000) <= 1

\* Six domains with one link each: 6 * 16.67 = 100.02.
C1_Witness == pc = "save" /\ Domains = 6 /\ StoredSum = 10002

\* C2 (as amended): each domain's raw weight is the sum of (1/r)*(1/h) over
\* the options that link to it and sov[domain] is round(raw / total * 100, 4);
\* a.com with 1*1 and 0.5*1 against b.com with 1*0.5 gets 75.0 against 25.0.
ExampleRun ==
    <<[ok |-> TRUE, jobs |-> <<Posting(<<LinkOption(UrlA), LinkOption(UrlB)>>)>>],
      [ok |-> TRUE, jobs |-> <<Posting(<<>>), Posting(<<LinkOption(UrlA)>>)>>]>>

C2_SovIsRoundedShare ==
    pc = "save" =>
        /\ DOMAIN result.sov_data = LinkedDomains
        /\ \A d \in LinkedDomains :
              /\ result.sov_data[d] = RoundRatio(RawWeight(d), TotalWeight, 6)
              /\ result.appearances[d] = Cardinality({p \in LinkPositions : LinkDomain(p) = d})
        /\ served = ExampleRun =>
              result.sov_data = [d \in {"a.com", "b.com"} |->
                                    IF d = "a.com" THEN 750000 ELSE 250000]

\* C2 (as stated): sov[domain] is raw / total * 100 itself.
C2_SovIsExactShare ==
    pc = "save" =>
        \A d \in LinkedDomains :
            LET x == ScaledDiv(RawWeight(d), TotalWeight, 6)
            IN  x.r = 0 /\ result.sov_data[d] = x.q

C2_Witness == pc = "save" /\ served = ExampleRun /\ result.sov_data["a.com"] = 750000

\* C3: a link whose domain is the empty string is skipped: "" is a key of no
\* dict of compute_sov, and total_sov counts only the links with a domain.
C3_EmptyDomainSkipped ==
    /\ "" \notin DOMAIN locals.domain_sov \cup DOMAIN locals.domain_appearances
    /\ "" \notin DOMAIN locals.domain_v_rank \cup DOMAIN locals.domain_h_rank
    /\ "" \notin DOMAIN result.sov_data \cup DOMAIN result.appearances
    /\ pc = "sov" =>
          locals.total_sov = SumWeights({p \in LinkPositions : LinkDomain(p) # ""})

\* C4: a run of total weight 0 returns four empty dicts and stores no row,
\* and no returned snapshot holds a domain with sov 0.
AfterCompute == {"save", "insert", "stored", "hist", "render", "cli", "done", "crashed"}
FetchErrors == {"RuntimeError: SerpAPI status", "ValueError: SERP_API_KEY"}
C5_FailedQuerySkipped ==
    (\E i \in DOMAIN served : ~served[i].ok) => error \notin FetchErrors

\* C6: the committed rows of the run are none or the whole snapshot, one row
\* per domain, and they appear only after every query has been fetched; a
\* failed insert or commit leaves none.
SnapshotRows == [i \in 1..Len(result.keys) |-> Row(result, result.keys[i], today)]
C6_NoPartialSnapshot ==
    /\ share_of_voice # <<>> =>
          /\ share_of_voice = SnapshotRows
          /\ {share_of_voice[i].domain : i \in DOMAIN share_of_voice} = LinkedDomains
          /\ Len(share_of_voice) = Cardinality(LinkedDomains)
          /\ AllFetched
    /\ error = "psycopg2.Error" => share_of_voice = <<>>

\* The second INSERT of a two-domain snapshot failed.
C6_Witness ==
    /\ error = "psycopg2.Error" /\ si = 2 /\ Len(result.keys) = 2 /\ share_of_voice = <<>>

\* C7: for every (domain, date) of the range the tables hold the mean of the
\* sov of the stored rows with that key, the sum of their appearances and
\* the means of their ranks, whatever the order in which the rows came back.
RowsOfKey(d, t) == {i \in DOMAIN share_of_voice :
                       share_of_voice[i].domain = d /\ share_of_voice[i].date = t}
RECURSIVE SumField(_, _)
SumField(I, f) ==
    IF I = {} THEN 0
    ELSE LET i == CHOOSE x \in I : TRUE IN share_of_voice[i][f] + SumField(I \ {i}, f)

Selected == {i \in DOMAIN share_of_voice :
                date_range[1] <= share_of_voice[i].date /\ share_of_voice[i].date <= date_range[2]}
SelectedKeys == {<<share_of_voice[i].domain, share_of_voice[i].date>> : i \in Selected}
HistoryRead == pc \in {"render", "cli", "done"} /\ mode = "view"

C7_MeanOfDuplicates ==
    HistoryRead =>
        /\ \A key \in SelectedKeys :
              LET I == RowsOfKey(key[1], key[2])
                  n == Cardinality(I)
              IN  /\ tables.df_sov.cell[key] = Ratio(SumField(I, "sov"), n)
                  /\ tables.df_appearances.cell[key] = SumField(I, "appearances")
                  /\ tables.df_metrics.cell[key] =
                        [appearances |-> SumField(I, "appearances"),
                         avg_v_rank |-> Ratio(SumField(I, "avg_v_rank"), n),
                         avg_h_rank |-> Ratio(SumField(I, "avg_h_rank"), n)]
        /\ \A rows \in Orders(InRange(share_of_voice, date_range[1], date_range[2])) :
              \A t \in HistoricalTables(rows) :
                  /\ t.df_sov.cell = tables.df_sov.cell
                  /\ t.df_metrics = tables.df_metrics
                  /\ t.df_appearances = tables.df_appearances

\* Two rows of a.com on date 1 with sov 10.0 then 20.0: the table shows 15.0.
C7_Witness ==
    /\ HistoryRead
    /\ Len(share_of_voice) >= 2
    /\ share_of_voice[1].domain = "a.com" /\ share_of_voice[2].domain = "a.com"
    /\ share_of_voice[1].date = 1 /\ share_of_voice[2].date = 1
    /\ share_of_voice[1].sov = 1000 /\ share_of_voice[2].sov = 2000
    /\ date_range = <<1, 1>>
    /\ tables.df_sov.cell[<<"a.com", 1>>] = [n |-> 1500, d |-> 1]

\* C8: df_sov lists the domains by descending value at the most recent date
\* of the range, and domains of equal value by ascending name.
C8_SortedWithNameTieBreak ==
    (HistoryRead /\ ~Empty(tables.df_sov)) =>
        LET o == tables.df_sov.index
            last == tables.df_sov.columns[Len(tables.df_sov.columns)]
            v(d) == tables.df_sov.cell[<<d, last>>]
        IN  \A i, j \in 1..Len(o) :
                i < j => \/ ~GreaterEq(v(o[j]), v(o[i]))
                         \/ (v(o[i]) = v(o[j]) /\ DomainIndex(o[i]) < DomainIndex(o[j]))

\* C9: with no row in the range, or no table, the history comes back as three
\* empty tables and the page shows "No historical data" without raising.
C9_EmptyHistoryTolerated ==
    /\ error # "ValueError: not enough values to unpack"
    /\ (pc \in {"cli", "done"} /\ mode # "github" /\ Selected = {}) =>
          "No historical data" \in shown

\* C10: the headless run reports success and exits 0 only when there were
\* queries, the credential was set and every fetch succeeded.
C10_SuccessOnlyAfterRealRun ==
    (mode = "github" /\ ("Data stored successfully" \in shown \/ exit_status = 0)) =>
        /\ jobs_data # <<>>
        /\ SERP_API_KEY
        /\ AllFetched

=============================================================================
